---- MODULE Spec2Model ----
(***************************************************************************)
(* The War card game simulator of src/src/sim.rs: PlayerDeck (draw pile    *)
(* and discard pile with reshuffle on empty), Game::play_round (face-offs, *)
(* honor rule, war escalation) and Game::play (the round loop).            *)
(*                                                                         *)
(* An Option<u8> is a sequence of length 0 (None) or 1 (Some(c)).  A Vec   *)
(* is a sequence whose last element is the one Vec::pop removes.           *)
(***************************************************************************)
EXTENDS Bags, FiniteSets, Integers, Sequences, TLC

\* Bounds of the model.
MaxDeck == 3    \* longest initial deck handed to PlayerDeck::new
MaxRank == 1    \* ranks are 0..MaxRank (u8 in the source)
MaxK == 1       \* Params.k ranges over 0..MaxK
MaxHonor == 1   \* Params.honor_threshold ranges over 0..MaxHonor
MaxTurn == 3    \* play() is followed for at most MaxTurn rounds

VARIABLES
  params,    \* Game.params: [k, honor_threshold]
  player1,   \* Game.player1: [deck, discard]
  player2,   \* Game.player2: [deck, discard]
  work,      \* Game.work, the wager buffer
  turn,      \* local `turn` of play()
  pc,        \* position in play()/play_round()
  result,    \* the RoundResult of the running round, "Running" until it is known
  card1,     \* Option<u8> drawn by player1 at the last face-off
  card2,     \* Option<u8> drawn by player2 at the last face-off
  initial,   \* history: the bag of cards of the two decks given to Game::new
  faceoffs,  \* history: the face-offs drawn so far in the running round
  round_start, \* history: player1.cards() + player2.cards() when play_round began
  round_cards, \* history: <<player1.cards(), player2.cards()>> when play_round began
  awards     \* history: the rounds whose buffer win_loot awarded so far

vars == <<params, player1, player2, work, turn, pc, result, card1, card2,
          initial, faceoffs, round_start, round_cards, awards>>

Ranks == 0..MaxRank

None == <<>>

Some(c) == <<c>>

Min(a, b) == IF a <= b THEN a ELSE b

Max(a, b) == IF a >= b THEN a ELSE b

\* u8::abs_diff
abs_diff(a, b) == IF a >= b THEN a - b ELSE b - a

\* usize::saturating_sub
saturating_sub(a, b) == IF a >= b THEN a - b ELSE 0

\* The sequence s without its first element equal to c.
RemoveOne(s, c) ==
  LET i == CHOOSE j \in 1..Len(s) : s[j] = c /\ \A l \in 1..(j - 1) : s[l] # c
  IN  SubSeq(s, 1, i - 1) \o SubSeq(s, i + 1, Len(s))

\* Every arrangement Rng::shuffle can leave a Vec in: all its permutations
\* (built by choosing the last rank, then arranging the rest).
RECURSIVE Shuffles(_)
Shuffles(s) ==
  IF s = <<>> THEN {<<>>}
  ELSE UNION { { Append(t, c) : t \in Shuffles(RemoveOne(s, c)) }
               : c \in { s[i] : i \in 1..Len(s) } }

\* The bag of the elements of a sequence.
RECURSIVE BagOfSeq(_)
BagOfSeq(s) ==
  IF s = <<>> THEN EmptyBag
  ELSE BagOfSeq(SubSeq(s, 1, Len(s) - 1)) (+) SetToBag({s[Len(s)]})

\* PlayerDeck::new
PlayerDeckNew(cs) == [deck |-> <<>>, discard |-> cs]

\* PlayerDeck::cards
cards(p) == Len(p.deck) + Len(p.discard)

\* A pop taking the bottom card of the draw pile instead of the top one.
Pop_front(p) ==
  IF p.deck = <<>> THEN [card |-> None, p |-> p]
  ELSE [card |-> Some(p.deck[1]),
        p |-> [p EXCEPT !.deck = SubSeq(p.deck, 2, Len(p.deck))]]

\* A pop that reads the top card of the draw pile without removing it.
Pop_peek(p) ==
  IF p.deck = <<>> THEN [card |-> None, p |-> p]
  ELSE [card |-> Some(p.deck[Len(p.deck)]), p |-> p]

\* Vec::pop on the draw pile of p: the Option returned and the deck left.
Pop(p) ==
  IF p.deck = <<>> THEN [card |-> None, p |-> p]
  ELSE [card |-> Some(p.deck[Len(p.deck)]),
        p |-> [p EXCEPT !.deck = SubSeq(p.deck, 1, Len(p.deck) - 1)]]

\* draw without the reshuffle of an empty draw pile.
draw_no_reshuffle(p) == { Pop(p) }

\* PlayerDeck::draw: the set of outcomes [card, p], one per shuffle outcome.
draw(p) ==
  IF p.deck = <<>>
  THEN { Pop([deck |-> s, discard |-> <<>>]) : s \in Shuffles(p.discard) }
  ELSE { Pop(p) }

\* win_loot assigning the discard pile instead of extending it.
win_loot_overwrite(p, cs) == [p EXCEPT !.discard = cs]

\* PlayerDeck::win_loot
win_loot(p, cs) == [p EXCEPT !.discard = p.discard \o cs]

\* (0..n).map(|_| p.draw(rng).unwrap()): the outcomes [cards, p, ok] of n
\* unwrapped draws; ok is FALSE when an unwrap met None (a panic).
RECURSIVE DrawN(_, _)
DrawN(p, n) ==
  IF n = 0 THEN { [cards |-> <<>>, p |-> p, ok |-> TRUE] }
  ELSE UNION { IF d.card = None
               THEN { [cards |-> <<>>, p |-> d.p, ok |-> FALSE] }
               ELSE { [cards |-> <<d.card[1]>> \o r.cards, p |-> r.p, ok |-> r.ok]
                      : r \in DrawN(d.p, n - 1) }
               : d \in draw(p) }

\* The honor condition without the card1 != card2 test.
Honorable_ties(c1, c2, honor_threshold) == abs_diff(c1, c2) <= honor_threshold

\* The honor condition with < in place of <=.
Honorable_strict(c1, c2, honor_threshold) ==
  c1 # c2 /\ abs_diff(c1, c2) < honor_threshold

\* The honor condition of a face-off pair.
Honorable(c1, c2, honor_threshold) ==
  c1 # c2 /\ abs_diff(c1, c2) <= honor_threshold

\* The cards a face-off pair appends to the wager buffer.
FaceOffLoot(c1, c2, honor_threshold) ==
  IF Honorable(c1, c2, honor_threshold) THEN <<Max(c1, c2)>> ELSE <<c1, c2>>

\* The compare with its Greater and Less arms exchanged.
Compare_swapped(c1, c2) ==
  IF c1 > c2 THEN "RoundWin(Player2)"
  ELSE IF c1 < c2 THEN "RoundWin(Player1)"
  ELSE "Equal"

\* card1.cmp(&card2) of a face-off pair, as the RoundResult or the war.
Compare(c1, c2) ==
  IF c1 > c2 THEN "RoundWin(Player1)"
  ELSE IF c1 < c2 THEN "RoundWin(Player2)"
  ELSE "Equal"

\* The wager count without the "leave one card" floor.
WagerCount_nofloor(p, k) == Min(cards(p), k)

\* The wager count without the cap at k.
WagerCount_nok(p, k) == saturating_sub(cards(p), 1)

\* The wager count without any cap: always k.
WagerCount_nocap(p, k) == k

\* The number of face-down cards a player wagers in a war.
WagerCount(p, k) == Min(saturating_sub(cards(p), 1), k)

\* The terminal result with the two winners exchanged.
Exhausted_swapped(o1, o2) ==
  IF o1 = None /\ o2 = None THEN "GameResult(Draw)"
  ELSE IF o1 = None THEN "GameResult(Player1)"
  ELSE "GameResult(Player2)"

\* The terminal result with Draw reported as soon as player1's draw fails.
Exhausted_either(o1, o2) ==
  IF o1 = None THEN "GameResult(Draw)" ELSE "GameResult(Player1)"

\* The terminal result of a face-off in which a draw failed.
Exhausted(o1, o2) ==
  IF o1 = None /\ o2 = None THEN "GameResult(Draw)"
  ELSE IF o1 = None THEN "GameResult(Player2)"
  ELSE "GameResult(Player1)"

\* The decks handed to PlayerDeck::new.  PlayerDeck::new stores the deck as the
\* discard pile and the first draw shuffles it, so the order of the Vec given
\* is never read: one deck per bag of ranks (the nondecreasing one) is taken.
Decks ==
  { d \in UNION { [1..n -> Ranks] : n \in 0..MaxDeck } :
      \A i \in 1..(Len(d) - 1) : d[i] <= d[i + 1] }

\* The start of play() with the turn counter starting at 1 instead of 0.
Init_turn_one ==
  /\ params \in [k : 0..MaxK, honor_threshold : 0..MaxHonor]
  /\ \E d1 \in Decks, d2 \in Decks :
       /\ player1 = PlayerDeckNew(d1)
       /\ player2 = PlayerDeckNew(d2)
       /\ initial = BagOfSeq(d1 \o d2)
  /\ work = <<>>
  /\ turn = 1
  /\ pc = "play"
  /\ result = "Running"
  /\ card1 = None
  /\ card2 = None
  /\ faceoffs = 0
  /\ round_start = cards(player1) + cards(player2)
  /\ round_cards = <<cards(player1), cards(player2)>>
  /\ awards = 0

\* Game::new on PlayerDeck::new decks, just before play() runs.  The history
\* variable awards stops counting at MaxTurn, which it cannot pass while the
\* turn counter is at most MaxTurn.
Init ==
  /\ params \in [k : 0..MaxK, honor_threshold : 0..MaxHonor]
  /\ \E d1 \in Decks, d2 \in Decks :
       /\ player1 = PlayerDeckNew(d1)
       /\ player2 = PlayerDeckNew(d2)
       /\ initial = BagOfSeq(d1 \o d2)
  /\ work = <<>>
  /\ turn = 0
  /\ pc = "play"
  /\ result = "Running"
  /\ card1 = None
  /\ card2 = None
  /\ faceoffs = 0
  /\ round_start = cards(player1) + cards(player2)
  /\ round_cards = <<cards(player1), cards(player2)>>
  /\ awards = 0

\* play(): turn += 1 and the call of play_round(), which clears the buffer.
StartRound ==
  /\ pc = "play"
  /\ turn < MaxTurn
  /\ turn' = turn + 1
  /\ work' = <<>>
  /\ result' = "Running"
  /\ card1' = None
  /\ card2' = None
  /\ pc' = "faceoff"
  /\ faceoffs' = 0
  /\ round_start' = cards(player1) + cards(player2)
  /\ round_cards' = <<cards(player1), cards(player2)>>
  /\ UNCHANGED <<params, player1, player2, initial, awards>>

\* One face-off of play_round(): both draws, the honor rule and the compare.
FaceOff ==
  /\ pc = "faceoff"
  /\ \E d1 \in draw(player1), d2 \in draw(player2) :
       /\ player1' = d1.p
       /\ player2' = d2.p
       /\ card1' = d1.card
       /\ card2' = d2.card
       /\ IF d1.card = None \/ d2.card = None
          THEN /\ result' = Exhausted(d1.card, d2.card)
               /\ pc' = "returned"
               /\ work' = work
          ELSE /\ work' = work \o FaceOffLoot(d1.card[1], d2.card[1], params.honor_threshold)
               /\ LET c == Compare(d1.card[1], d2.card[1]) IN
                    IF c = "Equal"
                    THEN result' = result /\ pc' = "war"
                    ELSE result' = c /\ pc' = "win_loot"
  /\ faceoffs' = faceoffs + 1
  /\ UNCHANGED <<params, turn, initial, round_start, round_cards, awards>>

\* The war escalation restarting the buffer instead of extending it.
War_clears ==
  /\ pc = "war"
  /\ \E w1 \in DrawN(player1, WagerCount(player1, params.k)) :
       \E w2 \in DrawN(player2, WagerCount(player2, params.k)) :
         /\ player1' = w1.p
         /\ player2' = w2.p
         /\ work' = w1.cards \o w2.cards
         /\ pc' = IF w1.ok /\ w2.ok THEN "faceoff" ELSE "panic"
  /\ UNCHANGED <<params, turn, result, card1, card2, initial, faceoffs, round_start,
                 round_cards, awards>>

\* The Ordering::Equal arm: player1's wagers, then player2's.
War ==
  /\ pc = "war"
  /\ \E w1 \in DrawN(player1, WagerCount(player1, params.k)) :
       IF ~w1.ok
       THEN /\ pc' = "panic"
            /\ player1' = w1.p
            /\ UNCHANGED <<player2, work>>
       ELSE \E w2 \in DrawN(player2, WagerCount(player2, params.k)) :
              /\ player1' = w1.p
              /\ player2' = w2.p
              /\ IF w2.ok
                 THEN work' = work \o w1.cards \o w2.cards /\ pc' = "faceoff"
                 ELSE work' = work \o w1.cards /\ pc' = "panic"
  /\ UNCHANGED <<params, turn, result, card1, card2, initial, faceoffs, round_start,
                 round_cards, awards>>

\* The award handing the buffer to both players.
WinLoot_both ==
  /\ pc = "win_loot"
  /\ player1' = win_loot(player1, work)
  /\ player2' = win_loot(player2, work)
  /\ pc' = "play"
  /\ awards' = Min(awards + 1, MaxTurn)
  /\ UNCHANGED <<params, work, turn, result, card1, card2, initial, faceoffs,
                 round_start, round_cards>>

\* play(): the RoundWin arms, awarding the buffer to the round's winner.
WinLoot ==
  /\ pc = "win_loot"
  /\ IF result = "RoundWin(Player1)"
     THEN player1' = win_loot(player1, work) /\ player2' = player2
     ELSE player2' = win_loot(player2, work) /\ player1' = player1
  /\ pc' = "play"
  /\ awards' = Min(awards + 1, MaxTurn)
  /\ UNCHANGED <<params, work, turn, result, card1, card2, initial, faceoffs,
                 round_start, round_cards>>

Next == StartRound \/ FaceOff \/ War \/ WinLoot

Spec == Init /\ [][Next]_vars

(***************************************************************************)
(* play() followed without an end.  The loop of play() has no exit but a   *)
(* terminal RoundResult; to keep the state space finite the turn counter   *)
(* is recorded up to MaxTurn and keeps that value in the later rounds.     *)
(***************************************************************************)

\* StartRound with a maximum-turn cutoff in play().
StartRoundLoop_cutoff ==
  /\ pc = "play"
  /\ turn < MaxTurn
  /\ turn' = turn + 1
  /\ work' = <<>>
  /\ result' = "Running"
  /\ card1' = None
  /\ card2' = None
  /\ pc' = "faceoff"
  /\ faceoffs' = 0
  /\ round_start' = cards(player1) + cards(player2)
  /\ round_cards' = <<cards(player1), cards(player2)>>
  /\ UNCHANGED <<params, player1, player2, initial, awards>>

\* play(): turn += 1 and the call of play_round(), in whatever round.
StartRoundLoop ==
  /\ pc = "play"
  /\ turn' = Min(turn + 1, MaxTurn)
  /\ work' = <<>>
  /\ result' = "Running"
  /\ card1' = None
  /\ card2' = None
  /\ pc' = "faceoff"
  /\ faceoffs' = 0
  /\ round_start' = cards(player1) + cards(player2)
  /\ round_cards' = <<cards(player1), cards(player2)>>
  /\ UNCHANGED <<params, player1, player2, initial, awards>>

\* Games without honor rule.
InitLoop == Init /\ params.honor_threshold = 0

NextLoop == StartRoundLoop \/ FaceOff \/ War \/ WinLoot

SpecLoop == InitLoop /\ [][NextLoop]_vars

(***************************************************************************)
(* play() under a saturating honor rule: honor_threshold is at least the   *)
(* largest difference between two ranks of the initial decks.  The rounds  *)
(* are followed up to one past the initial number of cards plus one.       *)
(***************************************************************************)

\* honor_threshold covers the difference of any two initial ranks.
Saturating ==
  \A a \in BagToSet(initial), b \in BagToSet(initial) :
     abs_diff(a, b) <= params.honor_threshold

InitSat == Init /\ Saturating

\* play(): turn += 1 and the call of play_round(), while the turn counter is
\* at most the initial number of cards plus one.
StartRoundSat ==
  /\ pc = "play"
  /\ turn <= BagCardinality(initial) + 1
  /\ turn' = turn + 1
  /\ work' = <<>>
  /\ result' = "Running"
  /\ card1' = None
  /\ card2' = None
  /\ pc' = "faceoff"
  /\ faceoffs' = 0
  /\ round_start' = cards(player1) + cards(player2)
  /\ round_cards' = <<cards(player1), cards(player2)>>
  /\ UNCHANGED <<params, player1, player2, initial, awards>>

NextSat == StartRoundSat \/ FaceOff \/ War \/ WinLoot

SpecSat == InitSat /\ [][NextSat]_vars

(***************************************************************************)
(* Properties.                                                             *)
(***************************************************************************)

Total == cards(player1) + cards(player2)

InitialSize == BagCardinality(initial)

\* A round is running: the buffer holds cards that are in no pile.
InRound == pc \in {"faceoff", "war", "win_loot"}

\* The number of cards of rank c in the sequence s.
Count(s, c) == LET Is(x) == x = c IN Len(SelectSeq(s, Is))

\* The cards in circulation, as the number of cards of each rank: the four
\* piles, and the buffer while a round runs.
InPlay ==
  LET piles == player1.deck \o player1.discard \o player2.deck \o player2.discard
      all == IF InRound THEN piles \o work ELSE piles
  IN  [c \in Ranks |-> Count(all, c)]

IsPrefix(s, t) == Len(s) <= Len(t) /\ SubSeq(t, 1, Len(s)) = s

\* The last face-off drew two cards.
BothDrew == card1 # None /\ card2 # None

\* The state just after win_loot awarded the buffer of a decisive round.
Awarded == pc = "play" /\ turn >= 1

\* C1: after every decisive round (just after win_loot) the two players' card
\* counts sum to the sum at the start of the round, less one exactly when the
\* deciding face-off had unequal cards within honor_threshold; with
\* honor_threshold = 0 the sum is the initial number of cards.
C1_Conservation ==
  Awarded =>
    /\ BothDrew
    /\ Total = round_start -
         (IF card1[1] # card2[1] /\ abs_diff(card1[1], card2[1]) <= params.honor_threshold
          THEN 1 ELSE 0)
    /\ (params.honor_threshold = 0 => Total = InitialSize)

\* C1 witness: a round decided by an honor face-off after a war was awarded.
C1_Witness ==
  /\ Awarded
  /\ faceoffs >= 2
  /\ card1[1] # card2[1]
  /\ abs_diff(card1[1], card2[1]) <= params.honor_threshold
  /\ Total = round_start - 1

\* C2 as stated: with honor_threshold = 0, when play() returns Player1 or
\* Player2 the winner holds every initial card and the loser none.
C2_Original ==
  (pc = "returned" /\ params.honor_threshold = 0) =>
    /\ (result = "GameResult(Player1)" =>
          cards(player1) = InitialSize /\ cards(player2) = 0)
    /\ (result = "GameResult(Player2)" =>
          cards(player2) = InitialSize /\ cards(player1) = 0)

\* C2 amended: with honor_threshold = 0, when play() returns Player1 or
\* Player2 the loser holds no card, and the winner holds every initial card
\* except the face-off card it drew last (dropped) and the cards of the wager
\* buffer (never awarded).
C2_EndSplit ==
  (pc = "returned" /\ params.honor_threshold = 0) =>
    /\ (result = "GameResult(Player1)" =>
          cards(player1) + Len(work) + 1 = InitialSize /\ cards(player2) = 0)
    /\ (result = "GameResult(Player2)" =>
          cards(player2) + Len(work) + 1 = InitialSize /\ cards(player1) = 0)

\* C2 witness: a game without honor rule won by player2 out of a war.
C2_Witness ==
  /\ pc = "returned"
  /\ params.honor_threshold = 0
  /\ result = "GameResult(Player2)"
  /\ work # <<>>
  /\ cards(player2) >= 1

\* C3: at every face-off draw, a lone player without cards loses at once, two
\* players without cards draw the game at once, and when both hold a card
\* both draws return one and the face-off yields no terminal result.
C3_TerminationPath ==
  [][pc = "faceoff" =>
       /\ (cards(player1) = 0 /\ cards(player2) >= 1 =>
             pc' = "returned" /\ result' = "GameResult(Player2)")
       /\ (cards(player1) >= 1 /\ cards(player2) = 0 =>
             pc' = "returned" /\ result' = "GameResult(Player1)")
       /\ (cards(player1) = 0 /\ cards(player2) = 0 =>
             pc' = "returned" /\ result' = "GameResult(Draw)")
       /\ (cards(player1) >= 1 /\ cards(player2) >= 1 =>
             /\ card1' # None /\ card2' # None
             /\ pc' \in {"war", "win_loot"}
             /\ result' \in {"Running", "RoundWin(Player1)", "RoundWin(Player2)"})]_vars

\* C3 witness: the face-off following a war escalation ended the game.
C3_Witness ==
  /\ pc = "returned"
  /\ result = "GameResult(Player1)"
  /\ faceoffs >= 2
  /\ card1 # None /\ card2 = None

\* C4 as stated: play() returns Draw only when a tied face-off of the same
\* round came before the face-off in which both draws failed.
C4_Original ==
  (pc = "returned" /\ result = "GameResult(Draw)") => faceoffs >= 2

\* C4 amended: play() returns Draw only when both initial decks were empty
\* (the very first face-off fails for both), or when a tied face-off of the
\* same round came before the face-off in which both draws failed.
C4_DrawOutOfWar ==
  (pc = "returned" /\ result = "GameResult(Draw)") =>
    \/ (initial = EmptyBag /\ turn = 1 /\ faceoffs = 1)
    \/ (initial # EmptyBag /\ faceoffs >= 2 /\ work # <<>> /\ Total = 0)

\* C4 witness: a game that started with cards ended in a Draw.
C4_Witness ==
  /\ pc = "returned"
  /\ result = "GameResult(Draw)"
  /\ initial # EmptyBag
  /\ faceoffs >= 2

\* C5 as stated: after every war escalation each player holds a card.
C5_Original ==
  [][pc = "war" => cards(player1') >= 1 /\ cards(player2') >= 1]_vars

\* C5 amended: after every war escalation each player who held a card once
\* the tied face-off card was drawn still holds one; a player whose tied card
\* was the last one holds none, before and after the escalation.
C5_RetentionFloor ==
  [][pc = "war" =>
       /\ pc' = "faceoff"
       /\ (cards(player1) >= 1 => cards(player1') >= 1)
       /\ (cards(player2) >= 1 => cards(player2') >= 1)
       /\ (cards(player1) = 0 => cards(player1') = 0)
       /\ (cards(player2) = 0 => cards(player2') = 0)]_vars

\* C5 witness: after a war escalation player1 wagered down to its last card
\* and player2, whose tied card was its last, holds none.
C5_Witness ==
  /\ pc = "faceoff"
  /\ faceoffs >= 1
  /\ cards(player1) = 1
  /\ cards(player2) = 0
  /\ Len(work) >= 3

\* C6: in a war each player moves exactly min(k, max(cards() - 1, 0)) cards
\* into the buffer, cards() being its own count after the tied face-off draw;
\* the two counts are independent and neither exceeds k.
C6_WagerCount ==
  [][pc = "war" =>
       LET n1 == Min(params.k, Max(cards(player1) - 1, 0))
           n2 == Min(params.k, Max(cards(player2) - 1, 0))
       IN  /\ cards(player1') = cards(player1) - n1
           /\ cards(player2') = cards(player2) - n2
           /\ Len(work') = Len(work) + n1 + n2
           /\ cards(player1) - cards(player1') <= params.k
           /\ cards(player2) - cards(player2') <= params.k
           /\ (cards(player1) <= 1 => player1' = player1)
           /\ (cards(player2) <= 1 => player2' = player2)]_vars

\* C6 witness: after the first tie one player wagered a card and the other,
\* left with one card, wagered none.
C6_Witness ==
  /\ pc = "faceoff"
  /\ faceoffs = 1
  /\ Len(work) = 3
  /\ cards(player1) = 1
  /\ cards(player2) >= 1

\* C7: no face-down draw of a war escalation fails: the unwrap never panics.
C7_NoFailingWarDraw == pc # "panic"

\* C7 witness: both players drew a face-down card in a war escalation.
C7_Witness ==
  /\ pc = "faceoff"
  /\ faceoffs = 1
  /\ Len(work) = 4

\* C8: a face-off that drew two cards appends the higher card alone when the
\* cards differ by at most honor_threshold and are unequal, and then one copy
\* of the lower card leaves circulation; otherwise it appends both cards, in
\* particular always when honor_threshold = 0.  No card ever enters
\* circulation again.
C8_HonorRule ==
  [][LET before == InPlay
         after == InPlay'
     IN  /\ (pc = "faceoff" /\ card1' # None /\ card2' # None) =>
              LET c1 == card1'[1]
                  c2 == card2'[1]
              IN  IF c1 # c2 /\ abs_diff(c1, c2) <= params.honor_threshold
                  THEN /\ params.honor_threshold > 0
                       /\ work' = Append(work, IF c1 > c2 THEN c1 ELSE c2)
                       /\ after = [before EXCEPT ![IF c1 > c2 THEN c2 ELSE c1] = @ - 1]
                  ELSE /\ work' = work \o <<c1, c2>>
                       /\ after = before
         /\ \A c \in Ranks : after[c] <= before[c]]_vars

\* C8 witness: the first face-off of a round fired the honor rule.
C8_Witness ==
  /\ pc = "win_loot"
  /\ faceoffs = 1
  /\ Len(work) = 1
  /\ card1[1] # card2[1]

\* C9: a face-off with unequal cards ends the round with the holder of the
\* higher card as winner, and play() appends the whole buffer, in order, to
\* that player's discard pile, leaving the three other piles unchanged.
C9_DecisiveAward ==
  [][/\ (pc = "faceoff" /\ card1' # None /\ card2' # None /\ card1'[1] # card2'[1]) =>
          /\ pc' = "win_loot"
          /\ result' = IF card1'[1] > card2'[1]
                       THEN "RoundWin(Player1)" ELSE "RoundWin(Player2)"
     /\ pc = "win_loot" =>
          /\ BothDrew /\ card1[1] # card2[1]
          /\ pc' = "play"
          /\ work' = work
          /\ IF card1[1] > card2[1]
             THEN /\ player1' = [deck |-> player1.deck, discard |-> player1.discard \o work]
                  /\ player2' = player2
             ELSE /\ player2' = [deck |-> player2.deck, discard |-> player2.discard \o work]
                  /\ player1' = player1]_vars

\* C9 witness: player2 was awarded the buffer of a round that went through a war.
C9_Witness ==
  /\ Awarded
  /\ result = "RoundWin(Player2)"
  /\ faceoffs >= 2
  /\ Len(work) >= 4
  /\ Len(player2.discard) >= Len(work)

\* C10: the buffer is emptied only where a round starts; inside a round every
\* step extends it; a tied face-off leads to the war escalation and from
\* there to the next face-off with the round unresolved, and a round resolves
\* only at a face-off with unequal cards (decisive) or a failed draw (terminal).
C10_WarAccumulation ==
  [][/\ (~IsPrefix(work, work') => pc = "play" /\ work' = <<>>)
     /\ (pc \in {"faceoff", "war"} => IsPrefix(work, work'))
     /\ (pc = "war" =>
           /\ pc' = "faceoff" /\ result' = "Running"
           /\ Len(work') - Len(work) =
                (cards(player1) - cards(player1')) + (cards(player2) - cards(player2')))
     /\ (pc = "faceoff" /\ card1' # None /\ card2' # None /\ card1'[1] = card2'[1] =>
           pc' = "war" /\ result' = "Running" /\ work' = work \o <<card1'[1], card2'[1]>>)
     /\ (pc' = "win_loot" => pc = "faceoff" /\ card1'[1] # card2'[1])
     /\ (pc' = "returned" => pc = "faceoff" /\ (card1' = None \/ card2' = None))]_vars

\* C10 witness: a round went through two wars before a decisive face-off.
C10_Witness ==
  /\ pc = "win_loot"
  /\ faceoffs >= 3
  /\ Len(work) >= 5

\* C11: when play() returns (result, turn), turn is 1 + the number of decisive
\* rounds whose buffer was awarded; it is at least 1, and exactly 1 when a
\* draw of the very first face-off fails.
C11_TurnCount ==
  /\ (pc = "returned" =>
        /\ turn = awards + 1
        /\ turn >= 1
        /\ (awards = 0 /\ faceoffs = 1 => turn = 1))
  /\ (pc \in {"faceoff", "war", "win_loot"} => turn = awards + 1)
  /\ (pc = "play" => turn = awards)

\* C11 witness: play() returned in its third round, after two awards.
C11_Witness ==
  /\ pc = "returned"
  /\ turn = 3
  /\ awards = 2

\* The pile s holds one card of rank 0 and one of rank 1.
LowHigh(s) == Len(s) = 2 /\ Count(s, 0) = 1 /\ Count(s, 1) = 1

\* The states of a game without honor rule in which each player owns one 0
\* and one 1 and the players win the rounds in turn: both draw piles empty
\* (round to start or started), player1 winning 1 over 0, player1's 0 against
\* player2's 1 on top of the draw piles, player2 winning 1 over 0.
Recurrent ==
  /\ params.honor_threshold = 0
  /\ \/ /\ pc \in {"play", "faceoff"}
        /\ player1.deck = <<>> /\ player2.deck = <<>>
        /\ LowHigh(player1.discard) /\ LowHigh(player2.discard)
        /\ pc = "faceoff" => work = <<>>
     \/ /\ pc = "win_loot" /\ result = "RoundWin(Player1)"
        /\ player1 = [deck |-> <<0>>, discard |-> <<>>]
        /\ player2 = [deck |-> <<1>>, discard |-> <<>>]
        /\ work = <<1, 0>>
     \/ /\ pc \in {"play", "faceoff"}
        /\ player1.deck = <<0>> /\ LowHigh(player1.discard)
        /\ player2 = [deck |-> <<1>>, discard |-> <<>>]
        /\ pc = "faceoff" => work = <<>>
     \/ /\ pc = "win_loot" /\ result = "RoundWin(Player2)"
        /\ player1.deck = <<>> /\ LowHigh(player1.discard)
        /\ player2 = [deck |-> <<>>, discard |-> <<>>]
        /\ work = <<0, 1>>

\* C12: play() has no bound on the number of rounds: from every state of the
\* recurrent family, whatever the turn, some shuffle outcome leads to a state
\* of the family again, so some sequence of shuffle outcomes keeps awarding
\* decisive rounds for ever and never yields a terminal GameResult.
C12_NoTurnCutoff ==
  Recurrent => pc # "returned" /\ ENABLED (NextLoop /\ Recurrent')

\* C12 witness: the family is still being played after MaxTurn awards.
C12_Witness ==
  /\ Recurrent
  /\ pc = "win_loot"
  /\ turn = MaxTurn
  /\ awards = MaxTurn

\* The contract of one draw: p before, the Option returned, q after.
DrawContract(p, card, q) ==
  /\ (card = None <=> cards(p) = 0)
  /\ (card = None => q.deck = <<>> /\ q.discard = <<>>)
  /\ (p.deck # <<>> =>
        /\ card = <<p.deck[Len(p.deck)]>>
        /\ q.deck = SubSeq(p.deck, 1, Len(p.deck) - 1)
        /\ q.discard = p.discard)
  /\ (p.deck = <<>> /\ p.discard # <<>> =>
        /\ card # None
        /\ q.discard = <<>>
        /\ Len(q.deck) + 1 = Len(p.discard)
        /\ \A c \in Ranks : Count(q.deck \o card, c) = Count(p.discard, c))
  /\ (card # None => cards(q) = cards(p) - 1)

\* C13: every draw of a face-off returns no card iff the player held none
\* (both piles then stay empty); with a non-empty draw pile it removes and
\* returns the top card and leaves the discard pile; with an empty draw pile
\* and a non-empty discard pile the card returned and the new draw pile are a
\* permutation of the old discard pile, which becomes empty; a draw that
\* returns a card lowers cards() by exactly 1.
C13_DrawContract ==
  [][pc = "faceoff" =>
       /\ DrawContract(player1, card1', player1')
       /\ DrawContract(player2, card2', player2')]_vars

\* C13 witness: the first face-off of a game, where player1 drew from a
\* reshuffled discard pile of three cards and player2 from a non-empty one.
C13_Witness ==
  /\ turn = 1
  /\ faceoffs = 1
  /\ pc \in {"war", "win_loot"}
  /\ round_cards[1] = 3
  /\ player1.discard = <<>>
  /\ Len(player1.deck) = 2
  /\ card1 # None /\ card2 # None

\* The smaller of the two card counts when play_round began.
RoundMin == Min(round_cards[1], round_cards[2])

\* C15: the face-off loop of play_round returns after at most
\* min(player1.cards(), player2.cards()) + 1 face-offs (counts taken when the
\* round began): while the round runs every face-off so far took at least one
\* card from each player and none came back, and a further face-off is only
\* ever due while fewer than min + 1 were drawn.
C15_RoundTerminates ==
  /\ faceoffs <= RoundMin + 1
  /\ (pc \in {"faceoff", "war"} => faceoffs <= RoundMin)
  /\ (pc \in {"faceoff", "war", "win_loot"} =>
        /\ cards(player1) <= round_cards[1] - faceoffs
        /\ cards(player2) <= round_cards[2] - faceoffs)
  /\ (pc = "returned" =>
        /\ cards(player1) <= round_cards[1] - (faceoffs - 1)
        /\ cards(player2) <= round_cards[2] - (faceoffs - 1))

\* C15 witness: a round that needed all min + 1 face-offs, three of them.
C15_Witness ==
  /\ pc = "returned"
  /\ faceoffs = RoundMin + 1
  /\ faceoffs >= 3

\* A variant of play(): the rounds begun, then the position inside the round
\* (face-off, war, face-off, ..., award), a round spanning RoundSpan values.
RoundSpan == 4 * MaxDeck + 4

Progress ==
  turn * RoundSpan +
    (CASE pc = "faceoff" -> 2 * faceoffs
       [] pc = "war" -> 2 * faceoffs - 1
       [] pc = "win_loot" -> 2 * faceoffs - 1
       [] pc = "play" -> RoundSpan - 1
       [] OTHER -> RoundSpan - 1)

\* C16: under a saturating honor rule play() reaches a terminal GameResult
\* whatever the shuffle outcomes, within N + 1 rounds, N being the initial
\* combined number of cards: every awarded round has taken one card out of
\* the game, no round beyond the (N + 1)-th is ever begun, play() has a next
\* step until it has returned, and every step raises the variant, which is
\* bounded, so every run ends, returned.
C16_SaturatingTerminates ==
  /\ [](/\ turn <= InitialSize + 1
        /\ Progress < (InitialSize + 2) * RoundSpan
        /\ (pc = "play" => Total = InitialSize - turn)
        /\ pc \in {"play", "faceoff", "war", "win_loot", "returned"}
        /\ (pc = "play" => ENABLED StartRoundSat)
        /\ (pc = "win_loot" => ENABLED WinLoot)
        /\ (pc = "faceoff" => draw(player1) # {} /\ draw(player2) # {})
        /\ (pc = "war" =>
              /\ DrawN(player1, WagerCount(player1, params.k)) # {}
              /\ DrawN(player2, WagerCount(player2, params.k)) # {}))
  /\ [][Progress' > Progress]_vars

\* C16 witness: a game under a saturating honor rule of at least 1 returned
\* in its third round or later.
C16_Witness ==
  /\ pc = "returned"
  /\ Saturating
  /\ params.honor_threshold >= 1
  /\ turn >= 3
  /\ InitialSize > Total + Len(work) + 1

\* C17: where a round starts (buffer cleared) the cards of the four piles,
\* and at every face-off, war and award of a round those cards with the
\* buffer added, are a sub-multiset of the cards of the two initial decks,
\* and the same multiset when honor_threshold = 0; nothing is added by a
\* terminal face-off either.
C17_NoCardCreated ==
  \A c \in Ranks :
     /\ InPlay[c] <= CopiesIn(c, initial)
     /\ (params.honor_threshold = 0 /\ pc # "returned" =>
           InPlay[c] = CopiesIn(c, initial))

\* C17 witness: a face-off is due after a war, in a later round of a game
\* that has lost a card to the honor rule.
C17_Witness ==
  /\ pc = "faceoff"
  /\ faceoffs >= 1
  /\ turn >= 2
  /\ work # <<>>
  /\ \E c \in Ranks : InPlay[c] < CopiesIn(c, initial)

====
